---------------------------- MODULE Spec2Model ----------------------------
(***************************************************************************)
(* People Detector (PeopleDetector.ino): a four-state cyclic controller    *)
(* READY -> DELAY -> FIRE -> REARM -> READY driven by loop(), which on     *)
(* every tick samples millis(), the armed end pin and the reset pin,       *)
(* arbitrates one action and calls changeState() at most once.             *)
(*                                                                         *)
(* unsigned long / long values are 32-bit words, held as records           *)
(* [hi, lo] of two 16-bit halves so that sums wrap modulo 2^32 exactly as  *)
(* on the target while every intermediate value stays within TLC's         *)
(* integers.                                                               *)
(***************************************************************************)
EXTENDS Integers, Sequences, FiniteSets, TLC

\* ------------------------------------------------------------------------
\* Constants of the header and of the sketch
\* ------------------------------------------------------------------------
NOTUSED == -1

LOW == 0

HIGH == 1

ACTION_NONE == 0

ACTION_TRIGGER == 1

ACTION_END_TIME == 2

ACTION_RESET == 3

STATE_READY == 0

STATE_DELAY == 1

STATE_FIRE == 2

STATE_REARM == 3

State == {STATE_READY, STATE_DELAY, STATE_FIRE, STATE_REARM}

Action == {ACTION_NONE, ACTION_TRIGGER, ACTION_END_TIME, ACTION_RESET}

\* ------------------------------------------------------------------------
\* 32-bit words
\* ------------------------------------------------------------------------
Half == 2^16

Word == [hi : 0..(Half - 1), lo : 0..(Half - 1)]

\* the word of a natural number below 2^31
U(n) == [hi |-> n \div Half, lo |-> n % Half]

\* the word hi * 2^16 + lo
W(h, l) == [hi |-> h, lo |-> l]

Zero32 == W(0, 0)

\* unsigned long addition: the sum modulo 2^32
Add32(a, b) ==
    LET l == a.lo + b.lo
        h == a.hi + b.hi + (l \div Half)
    IN  [hi |-> h % Half, lo |-> l % Half]

\* two's complement negation modulo 2^32
Neg32(a) ==
    IF a.lo = 0
    THEN [hi |-> (Half - a.hi) % Half, lo |-> 0]
    ELSE [hi |-> Half - 1 - a.hi, lo |-> Half - a.lo]

\* subtraction modulo 2^32
Sub32(a, b) == Add32(a, Neg32(b))

\* unsigned comparison a > b
Gt32(a, b) == a.hi > b.hi \/ (a.hi = b.hi /\ a.lo > b.lo)

\* unsigned comparison a <= b
Le32(a, b) == ~Gt32(a, b)

\* the sign of a word read as a (signed) long
IsNeg32(a) == a.hi >= Half \div 2

LONG_MAX == W(Half \div 2 - 1, Half - 1)

LONG_MIN == W(Half \div 2, 0)

\* unsigned division of a word by m, 0 < m < 2^15
UDiv32(a, m) ==
    LET r == a.hi % m
    IN  [hi |-> a.hi \div m, lo |-> (r * Half + a.lo) \div m]

\* C's long division by a positive m: the quotient truncated towards zero
DivLong(a, m) ==
    IF IsNeg32(a) THEN Neg32(UDiv32(Neg32(a), m)) ELSE UDiv32(a, m)

\* The long product n * b for an int 0 <= n < 2^15: whether it overflows
\* long, and its low 32 bits.
MulLong(n, b) ==
    LET pl == n * b.lo
        ph == n * b.hi + (pl \div Half)
    IN  [ovf |-> IF IsNeg32(b) THEN ph - n * Half < 0 - (Half \div 2)
                 ELSE ph >= Half \div 2,
         val |-> [hi |-> ph % Half, lo |-> pl % Half]]

\* Signed overflow is undefined in C: the product is then any of these
\* outcomes (the wrapped product is what the target's 32-bit multiply gives).
MulLongOutcomes(n, b) ==
    LET p == MulLong(n, b)
    IN  IF p.ovf THEN {p.val, LONG_MAX, LONG_MIN} ELSE {p.val}

\* Arduino's map(), as called by getWaitValue: every argument is a long,
\*   (x - in_min) * (out_max - out_min) / (in_max - in_min) + out_min
\* with x, in_min, in_max small ints and out_min, out_max words.  The
\* result is the set of values the call can return.
map(x, in_min, in_max, out_min, out_max) ==
    { Add32(DivLong(p, in_max - in_min), out_min) :
        p \in MulLongOutcomes(x - in_min, Sub32(out_max, out_min)) }

\* ------------------------------------------------------------------------
\* Compile-time configuration
\* ------------------------------------------------------------------------
\* int is 16 bits wide on the AVR target
INT_BITS == 16

\* an int product as the target evaluates it: the low INT_BITS bits of the
\* product, read as a signed int
IntMul(a, b) ==
    LET m == 2^INT_BITS
        r == (a * b) % m
    IN  IF r >= m \div 2 THEN r - m ELSE r

SECONDS == 1000

MINUTES == IntMul(60, SECONDS)

HOURS == IntMul(60, MINUTES)

TIME_CALC(x, y) == IntMul(x, y)

\* conversion of an int to unsigned long (sign extension for a negative int)
ULong(i) == IF i < 0 THEN Neg32(U(0 - i)) ELSE U(i)

\* analog input pins of the board
A0 == 14

A1 == 15

A2 == 16

A3 == 17

BLINK_TIME == 1000

\* The configuration as shipped in the sketch.
Shipped ==
    [END_READY_PIN |-> 2, END_DELAY_PIN |-> NOTUSED,
     END_FIRE_PIN |-> NOTUSED, END_REARM_PIN |-> NOTUSED,
     RESET_PIN |-> NOTUSED, BLINK_PIN |-> 13,
     READY_TIME_PIN |-> A3, DELAY_TIME_PIN |-> A2,
     FIRE_TIME_PIN |-> A1, REARM_TIME_PIN |-> A0,
     READY_PIN |-> 7, DELAY_PIN |-> 8, FIRE_PIN |-> 9, REARM_PIN |-> 10,
     READY_TIME |-> ULong(TIME_CALC(10, MINUTES)),
     DELAY_TIME |-> ULong(TIME_CALC(30, SECONDS)),
     FIRE_TIME |-> ULong(TIME_CALC(10, SECONDS)),
     REARM_TIME |-> ULong(TIME_CALC(20, MINUTES))]

\* Other settings of the same constants, covering the documented uses of a
\* state: timer and end pin (READY), skipped (DELAY), timer only (FIRE),
\* end pin only (REARM), with a reset button wired.
Bench ==
    [Shipped EXCEPT
        !.RESET_PIN = 4, !.END_REARM_PIN = 3,
        !.READY_TIME_PIN = NOTUSED, !.DELAY_TIME_PIN = NOTUSED,
        !.FIRE_TIME_PIN = NOTUSED, !.REARM_TIME_PIN = NOTUSED,
        !.READY_TIME = U(120000), !.DELAY_TIME = Zero32,
        !.FIRE_TIME = U(500), !.REARM_TIME = Zero32]

\* A build that waits in READY for the trigger pin alone and skips DELAY
\* and REARM.
Sentry ==
    [Bench EXCEPT
        !.RESET_PIN = NOTUSED, !.END_REARM_PIN = NOTUSED,
        !.READY_TIME = Zero32]

Configs == {Shipped, Bench, Sentry}

\* ------------------------------------------------------------------------
\* Bounds of the model
\* ------------------------------------------------------------------------
\* ticks of loop() explored after setup()
MaxTicks == 4

\* milliseconds between two samples of millis(); the last one brings the
\* counter to 2^32 - 502, just below its rollover
Deltas == {U(0), U(1), U(2), U(499), U(5000), W(Half - 1, Half - 502)}

\* analogRead() results sampled
RawVals == {0, 511, 1023}

\* what Serial offers to requested2Tune(): nothing, or a 't'
SerialIn == {"none", "t"}

InputPins == {2, 3, 4}

OutputPins == {7, 8, 9, 10, 13}

\* ------------------------------------------------------------------------
\* State
\* ------------------------------------------------------------------------
VARIABLES
    cfg,              \* the compile-time constants of the build
    pc,               \* "setup", "loop" (between ticks), "tuning"
    action, state,    \* the sketch's globals
    currTime, waitUntil, actionPin, waiting,
    blinkLedState, nextBlinkMillis,
    out,              \* level last written to each output pin
    pinLevel,         \* level of each input pin
    ticks,            \* ticks of loop() run so far
    rd,               \* what the two readPin() calls of the last tick returned
    expired,          \* what doneWaiting() returned in the last tick
    prevState,        \* state at the start of the last handler
    arm,              \* the last wait(): clock, analog sample, wait value
    csTrace           \* the pin writes of the last changeState(), in order

vars == <<cfg, pc, action, state, currTime, waitUntil, actionPin, waiting,
          blinkLedState, nextBlinkMillis, out, pinLevel, ticks, rd, expired,
          prevState, arm, csTrace>>

\* ------------------------------------------------------------------------
\* Pin helper functions
\* ------------------------------------------------------------------------
Level(b) == IF b THEN HIGH ELSE LOW

\* writePin(pin, state) on the output levels o
writePin(o, pin, level) ==
    IF pin # NOTUSED THEN [o EXCEPT ![pin] = level] ELSE o

\* readPin(pin, deflt) with the input levels lv
readPin(pin, deflt, lv) ==
    IF pin # NOTUSED THEN lv[pin] ELSE deflt

\* getWaitValue(waitTimePin, waitTime) when analogRead() returns raw: the
\* set of values it can return
getWaitValue(waitTimePin, waitTime, raw) ==
    IF waitTimePin # NOTUSED
    THEN map(raw, 0, 1023, Zero32, waitTime)
    ELSE {waitTime}

\* ------------------------------------------------------------------------
\* Wait / timer
\* ------------------------------------------------------------------------
\* a variant that takes a tie for expired
doneWaitingGe(w, now, until) == w /\ ~Gt32(until, now)

\* doneWaiting() on the globals waiting, currTime, waitUntil
doneWaiting(w, now, until) == w /\ Gt32(now, until)

\* a variant that records the end pin only when it is the sole way out
waitPinOnlyPolled(waitTimePin, waitTime, waitPin, now, until, raw) ==
    IF waitPin # NOTUSED /\ waitTime = Zero32
    THEN {[waiting |-> FALSE, waitUntil |-> until, actionPin |-> waitPin,
           waitValue |-> Zero32]}
    ELSE {[waiting |-> TRUE, waitUntil |-> Add32(now, wv),
           actionPin |-> NOTUSED, waitValue |-> wv] :
             wv \in getWaitValue(waitTimePin, waitTime, raw)}

\* a variant that arms a timer also for a state that only waits for its pin
waitAlwaysTimed(waitTimePin, waitTime, waitPin, now, until, raw) ==
    {[waiting |-> TRUE, waitUntil |-> Add32(now, wv),
      actionPin |-> waitPin, waitValue |-> wv] :
        wv \in getWaitValue(waitTimePin, waitTime, raw)}
\* a variant that counts a new wait from the deadline left by the last one
waitFromOldDeadline(waitTimePin, waitTime, waitPin, now, until, raw) ==
    IF waitPin # NOTUSED /\ waitTime = Zero32
    THEN {[waiting |-> FALSE, waitUntil |-> until, actionPin |-> waitPin,
           waitValue |-> Zero32]}
    ELSE {[waiting |-> TRUE, waitUntil |-> Add32(until, wv),
           actionPin |-> waitPin, waitValue |-> wv] :
             wv \in getWaitValue(waitTimePin, waitTime, raw)}

\* wait(waitTimePin, waitTime, waitPin) at currTime = now, waitUntil = until:
\* the timer records it can leave (waitValue is its local)
wait(waitTimePin, waitTime, waitPin, now, until, raw) ==
    IF waitPin # NOTUSED /\ waitTime = Zero32
    THEN {[waiting |-> FALSE, waitUntil |-> until, actionPin |-> waitPin,
           waitValue |-> Zero32]}
    ELSE {[waiting |-> TRUE, waitUntil |-> Add32(now, wv),
           actionPin |-> waitPin, waitValue |-> wv] :
             wv \in getWaitValue(waitTimePin, waitTime, raw)}

\* ------------------------------------------------------------------------
\* changeState
\* ------------------------------------------------------------------------
\* the arguments changeState passes to wait(), and its indicatorPin
TimePinOf(c, s) ==
    CASE s = STATE_READY -> c.READY_TIME_PIN
      [] s = STATE_DELAY -> c.DELAY_TIME_PIN
      [] s = STATE_FIRE  -> c.FIRE_TIME_PIN
      [] s = STATE_REARM -> c.REARM_TIME_PIN

TimeOf(c, s) ==
    CASE s = STATE_READY -> c.READY_TIME
      [] s = STATE_DELAY -> c.DELAY_TIME
      [] s = STATE_FIRE  -> c.FIRE_TIME
      [] s = STATE_REARM -> c.REARM_TIME

EndPinOf(c, s) ==
    CASE s = STATE_READY -> c.END_READY_PIN
      [] s = STATE_DELAY -> c.END_DELAY_PIN
      [] s = STATE_FIRE  -> c.END_FIRE_PIN
      [] s = STATE_REARM -> c.END_REARM_PIN

IndicatorOf(c, s) ==
    CASE s = STATE_READY -> c.READY_PIN
      [] s = STATE_DELAY -> c.DELAY_PIN
      [] s = STATE_FIRE  -> c.FIRE_PIN
      [] s = STATE_REARM -> c.REARM_PIN

\* allLedsOff(): the output levels after each of its four writes
allLedsOff(c, o) ==
    LET o1 == writePin(o, c.READY_PIN, LOW)
        o2 == writePin(o1, c.DELAY_PIN, LOW)
        o3 == writePin(o2, c.FIRE_PIN, LOW)
        o4 == writePin(o3, c.REARM_PIN, LOW)
    IN  <<o1, o2, o3, o4>>

\* a variant that leaves out allLedsOff()
changeStateStepsNoOff(c, newstate, o) ==
    [i \in 1..4 |-> [op |-> "off", out |-> o]]
    \o <<[op |-> "wait", out |-> o]>>
    \o <<[op |-> "on", out |-> writePin(o, IndicatorOf(c, newstate), HIGH)]>>
\* a variant that writes the new indicator before allLedsOff()
changeStateStepsOnFirst(c, newstate, o) ==
    LET lit == writePin(o, IndicatorOf(c, newstate), HIGH)
        offs == allLedsOff(c, lit)
    IN  <<[op |-> "on", out |-> lit]>>
        \o [i \in 1..4 |-> [op |-> "off", out |-> offs[i]]]
        \o <<[op |-> "wait", out |-> offs[4]]>>

\* The steps of changeState(newstate) from output levels o, in program
\* order: the four writes of allLedsOff(), wait(), the indicator write.
\* Each step carries the output levels after it.
changeStateSteps(c, newstate, o) ==
    LET offs == allLedsOff(c, o)
    IN  [i \in 1..4 |-> [op |-> "off", out |-> offs[i]]]
        \o <<[op |-> "wait", out |-> offs[4]]>>
        \o <<[op |-> "on",
              out |-> writePin(offs[4], IndicatorOf(c, newstate), HIGH)]>>
\* a variant that hands READY's end pin to wait() for every state
changeStateReadyPin(c, newstate, now, until, raw, o) ==
    LET steps == changeStateSteps(c, newstate, o)
    IN  { [state |-> newstate, waiting |-> t.waiting,
           waitUntil |-> t.waitUntil, actionPin |-> t.actionPin,
           out |-> steps[Len(steps)].out, csTrace |-> steps,
           arm |-> [time |-> now, raw |-> raw, value |-> t.waitValue]] :
          t \in wait(TimePinOf(c, newstate), TimeOf(c, newstate),
                     EndPinOf(c, STATE_READY), now, until, raw) }

\* changeState(newstate) at currTime = now: the results it can have
changeState(c, newstate, now, until, raw, o) ==
    LET steps == changeStateSteps(c, newstate, o)
    IN  { [state |-> newstate, waiting |-> t.waiting,
           waitUntil |-> t.waitUntil, actionPin |-> t.actionPin,
           out |-> steps[Len(steps)].out, csTrace |-> steps,
           arm |-> [time |-> now, raw |-> raw, value |-> t.waitValue]] :
          t \in wait(TimePinOf(c, newstate), TimeOf(c, newstate),
                     EndPinOf(c, newstate), now, until, raw) }

\* blinkLed() at currTime = now, on output levels o
blinkLed(c, now, next, led, o) ==
    IF Gt32(now, next)
    THEN [nextBlinkMillis |-> Add32(now, U(BLINK_TIME)),
          blinkLedState |-> ~led,
          out |-> writePin(o, c.BLINK_PIN, Level(~led))]
    ELSE [nextBlinkMillis |-> next, blinkLedState |-> led, out |-> o]

\* ------------------------------------------------------------------------
\* loop
\* ------------------------------------------------------------------------
\* a variant that checks the reset pin before the trigger pin
ArbitrateResetFirst(timeUp, endRead, resetRead) ==
    LET a1 == IF timeUp THEN ACTION_END_TIME ELSE ACTION_NONE
        a2 == IF resetRead = HIGH THEN ACTION_RESET ELSE a1
    IN  IF endRead = HIGH THEN ACTION_TRIGGER ELSE a2
\* a variant that tests the timer after the trigger pin
ArbitrateTimerLast(timeUp, endRead, resetRead) ==
    LET a1 == IF endRead = HIGH THEN ACTION_TRIGGER ELSE ACTION_NONE
        a2 == IF timeUp THEN ACTION_END_TIME ELSE a1
    IN  IF resetRead = HIGH THEN ACTION_RESET ELSE a2

\* the action loop() settles on: later checks overwrite earlier ones
Arbitrate(timeUp, endRead, resetRead) ==
    LET a1 == IF timeUp THEN ACTION_END_TIME ELSE ACTION_NONE
        a2 == IF endRead = HIGH THEN ACTION_TRIGGER ELSE a1
    IN  IF resetRead = HIGH THEN ACTION_RESET ELSE a2

\* a variant whose FIRE case goes straight back to READY
NextStateSkipRearm(s) ==
    CASE s = STATE_READY -> STATE_DELAY
      [] s = STATE_DELAY -> STATE_FIRE
      [] s = STATE_FIRE  -> STATE_READY
      [] s = STATE_REARM -> STATE_READY

\* the inner switch of loop(): the state after s
NextState(s) ==
    CASE s = STATE_READY -> STATE_DELAY
      [] s = STATE_DELAY -> STATE_FIRE
      [] s = STATE_FIRE  -> STATE_REARM
      [] s = STATE_REARM -> STATE_READY

\* requested2Tune() on what Serial offers
requested2Tune(ser) == ser = "t"

\* input levels the build can see: only wired pins are ever read
WiredInputs(c) ==
    {c.END_READY_PIN, c.END_DELAY_PIN, c.END_FIRE_PIN, c.END_REARM_PIN,
     c.RESET_PIN} \ {NOTUSED}

LevelsOf(c) ==
    {lv \in [InputPins -> {LOW, HIGH}] :
        \A p \in InputPins \ WiredInputs(c) : lv[p] = LOW}

\* analogRead() is only called in a build with a time pin assigned
RawValsOf(c) ==
    IF {c.READY_TIME_PIN, c.DELAY_TIME_PIN, c.FIRE_TIME_PIN,
        c.REARM_TIME_PIN} = {NOTUSED}
    THEN {0} ELSE RawVals

NoArm == [time |-> Zero32, raw |-> 0, value |-> Zero32]

\* The globals as initialised at load time, before setup(), in a build
\* with one of the configurations cs.
InitWith(cs) ==
    /\ cfg \in cs
    /\ pc = "setup"
    /\ action = ACTION_NONE
    /\ state = STATE_READY
    /\ currTime = Zero32
    /\ waitUntil = Zero32
    /\ actionPin = 0
    /\ waiting = FALSE
    /\ blinkLedState = FALSE
    /\ nextBlinkMillis = Zero32
    /\ out = [p \in OutputPins |-> LOW]
    /\ pinLevel = [p \in InputPins |-> LOW]
    /\ ticks = 0
    /\ rd = [end |-> LOW, reset |-> LOW]
    /\ expired = FALSE
    /\ prevState = STATE_READY
    /\ arm = NoArm
    /\ csTrace = << >>

Init == InitWith(Configs)

\* setup(): blinkLed(), then changeState(STATE_READY); currTime is still 0
setupWith(raw) ==
    /\ pc = "setup"
    /\ LET b == blinkLed(cfg, currTime, nextBlinkMillis, blinkLedState, out)
       IN  \E r \in changeState(cfg, STATE_READY, currTime, waitUntil, raw,
                                b.out) :
             /\ state' = r.state
             /\ waiting' = r.waiting
             /\ waitUntil' = r.waitUntil
             /\ actionPin' = r.actionPin
             /\ out' = r.out
             /\ csTrace' = r.csTrace
             /\ arm' = r.arm
             /\ nextBlinkMillis' = b.nextBlinkMillis
             /\ blinkLedState' = b.blinkLedState
    /\ prevState' = state
    /\ pc' = "loop"
    /\ UNCHANGED <<cfg, action, currTime, pinLevel, ticks, rd, expired>>

\* a variant whose default case re-enters the current state
respondRearmOnNone(c, act, cur, now, raw) ==
    IF act = ACTION_RESET
    THEN changeState(c, STATE_READY, now, cur.waitUntil, raw, cur.out)
    ELSE IF act \in {ACTION_END_TIME, ACTION_TRIGGER}
    THEN changeState(c, NextState(cur.state), now, cur.waitUntil, raw, cur.out)
    ELSE changeState(c, cur.state, now, cur.waitUntil, raw, cur.out)
\* a variant that goes on to the next state within the same tick when the
\* deadline it has just armed is already passed
respondChained(c, act, cur, now, raw) ==
    IF act = ACTION_RESET
    THEN changeState(c, STATE_READY, now, cur.waitUntil, raw, cur.out)
    ELSE IF act \in {ACTION_END_TIME, ACTION_TRIGGER}
    THEN UNION { IF doneWaiting(r.waiting, now, r.waitUntil)
                 THEN changeState(c, NextState(r.state), now, r.waitUntil,
                                  raw, r.out)
                 ELSE {r} :
                   r \in changeState(c, NextState(cur.state), now,
                                     cur.waitUntil, raw, cur.out) }
    ELSE {[state |-> cur.state, waiting |-> cur.waiting,
           waitUntil |-> cur.waitUntil, actionPin |-> cur.actionPin,
           out |-> cur.out, csTrace |-> << >>, arm |-> cur.arm]}
\* a variant whose reset case does nothing when the state is already READY
respondResetOnce(c, act, cur, now, raw) ==
    IF act = ACTION_RESET /\ cur.state # STATE_READY
    THEN changeState(c, STATE_READY, now, cur.waitUntil, raw, cur.out)
    ELSE IF act \in {ACTION_END_TIME, ACTION_TRIGGER}
    THEN changeState(c, NextState(cur.state), now, cur.waitUntil, raw, cur.out)
    ELSE {[state |-> cur.state, waiting |-> cur.waiting,
           waitUntil |-> cur.waitUntil, actionPin |-> cur.actionPin,
           out |-> cur.out, csTrace |-> << >>, arm |-> cur.arm]}

\* The switch (action) of loop() on the globals cur = [state, waiting,
\* waitUntil, actionPin, out, arm]: the results it can have.
respond(c, act, cur, now, raw) ==
    IF act = ACTION_RESET
    THEN changeState(c, STATE_READY, now, cur.waitUntil, raw, cur.out)
    ELSE IF act \in {ACTION_END_TIME, ACTION_TRIGGER}
    THEN changeState(c, NextState(cur.state), now, cur.waitUntil, raw, cur.out)
    ELSE {[state |-> cur.state, waiting |-> cur.waiting,
           waitUntil |-> cur.waitUntil, actionPin |-> cur.actionPin,
           out |-> cur.out, csTrace |-> << >>, arm |-> cur.arm]}

\* One tick of loop(): millis() has advanced by d since the last sample,
\* the input pins are at levels lv, analogRead() would return raw, Serial
\* offers ser.
loopWith(d, lv, raw, ser) ==
    /\ pc = "loop"
    /\ LET now == Add32(currTime, d)
           timeUp == doneWaiting(waiting, now, waitUntil)
           endRead == readPin(actionPin, LOW, lv)
           resetRead == readPin(cfg.RESET_PIN, LOW, lv)
           act == Arbitrate(timeUp, endRead, resetRead)
           cur == [state |-> state, waiting |-> waiting,
                   waitUntil |-> waitUntil, actionPin |-> actionPin,
                   out |-> out, arm |-> arm]
       IN  \E r \in respond(cfg, act, cur, now, raw) :
             LET b == blinkLed(cfg, now, nextBlinkMillis, blinkLedState, r.out)
             IN  /\ action' = act
                 /\ currTime' = now
                 /\ state' = r.state
                 /\ waiting' = r.waiting
                 /\ waitUntil' = r.waitUntil
                 /\ actionPin' = r.actionPin
                 /\ csTrace' = r.csTrace
                 /\ arm' = r.arm
                 /\ out' = b.out
                 /\ nextBlinkMillis' = b.nextBlinkMillis
                 /\ blinkLedState' = b.blinkLedState
                 /\ rd' = [end |-> endRead, reset |-> resetRead]
                 /\ expired' = timeUp
    /\ pinLevel' = lv
    /\ prevState' = state
    /\ pc' = IF requested2Tune(ser) THEN "tuning" ELSE "loop"
    /\ UNCHANGED cfg

\* One pass of the while loop of performTuning(): it ends when Serial
\* offers another 't'; nothing else is read or written.
performTuningWith(lv, ser) ==
    /\ pc = "tuning"
    /\ pc' = IF requested2Tune(ser) THEN "loop" ELSE "tuning"
    /\ pinLevel' = lv
    /\ UNCHANGED <<cfg, action, state, currTime, waitUntil, actionPin,
                   waiting, blinkLedState, nextBlinkMillis, out, ticks, rd,
                   expired, prevState, arm, csTrace>>

Setup == \E raw \in RawValsOf(cfg) : setupWith(raw)

Tick ==
    /\ ticks < MaxTicks
    /\ ticks' = ticks + 1
    /\ \E d \in Deltas, lv \in LevelsOf(cfg), raw \in RawValsOf(cfg),
          ser \in SerialIn :
         loopWith(d, lv, raw, ser)

Tune ==
    /\ UNCHANGED ticks
    /\ \E ser \in SerialIn : performTuningWith(pinLevel, ser)

Next == Setup \/ Tick \/ Tune

Spec == Init /\ [][Next]_vars

\* ------------------------------------------------------------------------
\* loop() called for ever: no bound on the ticks, the clock moving by half
\* its period, the input levels free to change while performTuning() spins
\* ------------------------------------------------------------------------
FairDeltas == {U(0), W(Half \div 2, 0)}

TickFair ==
    /\ UNCHANGED ticks
    /\ \E d \in FairDeltas, lv \in LevelsOf(cfg), raw \in RawValsOf(cfg),
          ser \in SerialIn :
         loopWith(d, lv, raw, ser)

TuneFair ==
    /\ UNCHANGED ticks
    /\ \E lv \in LevelsOf(cfg), ser \in SerialIn : performTuningWith(lv, ser)

NextFair == Setup \/ TickFair \/ TuneFair

\* The Arduino core calls setup() once and then loop() again and again;
\* the while loop of performTuning() keeps iterating.
FairSpec ==
    /\ Init
    /\ [][NextFair]_vars
    /\ WF_vars(Setup)
    /\ WF_vars(TickFair)
    /\ WF_vars(TuneFair)
\* ------------------------------------------------------------------------
\* The shipped build running for ever with Serial silent: every state is
\* timed and no reset pin is wired.  loop() samples millis() at the moments
\* of MillisSamples, in this order, in every period of the counter: just
\* after a rollover, 30000 and 10000 ms before the next one, and at the
\* counter's maximum 2^32 - 1.
\* ------------------------------------------------------------------------
MillisSamples ==
    <<U(0), U(1), U(20000), W(Half - 1, Half - 30001),
      W(Half - 1, Half - 10001), W(Half - 1, Half - 1)>>

\* milliseconds from the sample now to the next one
NextSampleDelta(now) ==
    LET i == CHOOSE k \in 1..Len(MillisSamples) : MillisSamples[k] = now
        j == IF i = Len(MillisSamples) THEN 1 ELSE i + 1
    IN  Sub32(MillisSamples[j], now)

InitRun == InitWith({Shipped})

TickRun ==
    /\ UNCHANGED ticks
    /\ \E lv \in LevelsOf(cfg), raw \in RawValsOf(cfg) :
         loopWith(NextSampleDelta(currTime), lv, raw, "none")

NextRun == Setup \/ TickRun

\* the Arduino core calls setup() once and then loop() again and again
RunSpec ==
    /\ InitRun
    /\ [][NextRun]_vars
    /\ WF_vars(Setup)
    /\ WF_vars(TickRun)

\* ------------------------------------------------------------------------
\* setup() alone, over a range of READY durations and every analog sample:
\* the inputs of getWaitValue() and wait()
\* ------------------------------------------------------------------------
WaitTimes ==
    {Zero32, U(1), U(500), U(10000), U(120000), U(1200000), U(2099202),
     U(2099203), U(3600000)}

WaitConfigs ==
    {[Shipped EXCEPT !.READY_TIME = t, !.READY_TIME_PIN = p,
                     !.END_READY_PIN = e] :
        t \in WaitTimes, p \in {NOTUSED, A3}, e \in {NOTUSED, 2}}

InitWait == InitWith(WaitConfigs)

SetupAnyRaw == \E raw \in 0..1023 : setupWith(raw)

SpecWait == InitWait /\ [][SetupAnyRaw]_vars

\* ------------------------------------------------------------------------
\* Properties
\* ------------------------------------------------------------------------
\* a step that is one tick of loop()
IsTick == pc = "loop" /\ ticks' = ticks + 1

\* the level of the indicator output of state s (LOW when it has none)
IndicatorOut(s) ==
    IF IndicatorOf(cfg, s) = NOTUSED THEN LOW ELSE out[IndicatorOf(cfg, s)]

\* the successor of s in the cycle READY, DELAY, FIRE, REARM
Succ(s) == (s + 1) % 4

\* C1: a tick in which the reset pin reads HIGH arbitrates ACTION_RESET and
\* ends in STATE_READY, whatever the state it started in, whether or not
\* the timer had expired and the armed end pin read HIGH in that tick.
C1_ResetAlwaysWins ==
    (ticks > 0 /\ rd.reset = HIGH) =>
        (action = ACTION_RESET /\ state = STATE_READY)

\* C1 witness: reset, an expired timer and a HIGH end pin in one tick.
C1_Witness ==
    /\ ticks > 0 /\ rd.reset = HIGH /\ rd.end = HIGH /\ expired
    /\ action = ACTION_RESET /\ state = STATE_READY

\* C2: a tick whose action is TRIGGER or END_TIME ends in the cyclic
\* successor of the state it started in (the same for both actions), and
\* a tick changes the state only on TRIGGER, END_TIME or RESET.
C2_CyclicOrder ==
    ticks > 0 =>
        /\ action \in {ACTION_TRIGGER, ACTION_END_TIME} =>
              state = Succ(prevState)
        /\ state # prevState =>
              action \in {ACTION_TRIGGER, ACTION_END_TIME, ACTION_RESET}

\* C2 witness: the fourth advance of a cycle, from REARM back to READY
\* after four ticks that each advanced the state.
C2_Witness ==
    /\ ticks = 4 /\ prevState = STATE_REARM /\ state = STATE_READY
    /\ action \in {ACTION_TRIGGER, ACTION_END_TIME}

\* C3: a tick whose action is ACTION_NONE leaves the state, the timer
\* record (waiting, waitUntil, actionPin) and the four indicator outputs
\* as they were.
C3_NoneChangesNothing ==
    [][(IsTick /\ action' = ACTION_NONE) =>
          /\ state' = state
          /\ waiting' = waiting
          /\ waitUntil' = waitUntil
          /\ actionPin' = actionPin
          /\ \A s \in State : IndicatorOut(s)' = IndicatorOut(s)]_vars

\* C3 witness: a tick with no action in FIRE, the clock having advanced
\* and the blink LED having toggled meanwhile.
C3_Witness ==
    /\ ticks > 1 /\ action = ACTION_NONE /\ state = STATE_FIRE
    /\ prevState = STATE_FIRE /\ csTrace = << >>
    /\ Gt32(currTime, arm.time) /\ blinkLedState

\* the documented uses of a state s in the build cfg
SkipState(s) == TimeOf(cfg, s) = Zero32 /\ EndPinOf(cfg, s) = NOTUSED

PinOnly(s) == TimeOf(cfg, s) = Zero32 /\ EndPinOf(cfg, s) # NOTUSED

TimerAndPin(s) == TimeOf(cfg, s) # Zero32 /\ EndPinOf(cfg, s) # NOTUSED

\* the deadline of the last wait(): its clock plus its wait value, as the
\* unsigned long sum the code stores
Deadline == Add32(arm.time, arm.value)

\* C4 (as claimed): a state with duration 0 and no end pin has its expiry
\* condition true in the very tick that armed it, so no clock advance is
\* needed to leave it.
C4_SkipInArmingTick ==
    (ticks > 0 /\ csTrace # << >> /\ SkipState(state)) =>
        doneWaiting(waiting, currTime, waitUntil)

\* C5: a state entered with duration 0 and an end pin is armed with
\* waiting = FALSE; in every tick that starts in it doneWaiting() is false
\* whatever the clock, no ACTION_END_TIME occurs, and the state is left
\* only when its end pin or the reset pin reads HIGH.
C5_PinOnlyNeverExpires ==
    /\ (pc # "setup" /\ PinOnly(state)) =>
          (~waiting /\ ~doneWaiting(waiting, currTime, waitUntil))
    /\ (ticks > 0 /\ PinOnly(prevState)) =>
          /\ ~expired
          /\ action # ACTION_END_TIME
          /\ state # prevState => (rd.end = HIGH \/ rd.reset = HIGH)

\* C5 witness: a tick with no action in a pin-only READY, the clock having
\* rolled over since the state was armed.
C5_Witness ==
    /\ ticks > 1 /\ PinOnly(state) /\ prevState = state
    /\ action = ACTION_NONE /\ rd.end = LOW
    /\ Gt32(arm.time, currTime)

\* C6: in a state with a non-zero duration and an end pin, a tick in which
\* reset reads LOW advances the state exactly when the end pin reads HIGH
\* or the clock is past the deadline, and otherwise leaves it; a tick that
\* advances ends with the old indicator LOW and the new one HIGH.
C6_TimerPinRace ==
    [][(IsTick /\ TimerAndPin(state) /\ rd'.reset = LOW) =>
          /\ state' = Succ(state) <=>
                \/ pinLevel'[EndPinOf(cfg, state)] = HIGH
                \/ Gt32(currTime', Deadline)
          /\ state' # Succ(state) => state' = state
          /\ state' = Succ(state) =>
                /\ out'[IndicatorOf(cfg, state)] = LOW
                /\ out'[IndicatorOf(cfg, Succ(state))] = HIGH]_vars

\* C6 witness: READY armed with 120000 ms, the trigger pin sampled HIGH at
\* 5000 ms: DELAY in that tick, READY's indicator LOW and DELAY's HIGH.
C6_Witness ==
    /\ cfg.READY_TIME = U(120000) /\ cfg.END_READY_PIN # NOTUSED
    /\ ticks = 1 /\ currTime = U(5000) /\ prevState = STATE_READY
    /\ ~expired /\ action = ACTION_TRIGGER /\ state = STATE_DELAY
    /\ out[cfg.READY_PIN] = LOW /\ out[cfg.DELAY_PIN] = HIGH

\* C7: in a timed state without end pin, a tick in which reset reads LOW
\* has ACTION_END_TIME exactly when its clock is strictly greater than the
\* deadline t0 + d (the unsigned long sum of arm clock and wait value); a
\* tie does not expire; ACTION_END_TIME advances the state and otherwise
\* the tick has no action.
C7_StrictExpiry ==
    [][(IsTick /\ waiting /\ actionPin = NOTUSED /\ rd'.reset = LOW) =>
          /\ action' = ACTION_END_TIME <=> Gt32(currTime', Deadline)
          /\ action' = ACTION_END_TIME => state' = Succ(state)
          /\ action' # ACTION_END_TIME =>
                (action' = ACTION_NONE /\ state' = state)]_vars

\* C7 witness: FIRE armed with 500 ms, a tick exactly 500 ms later (the
\* tie): no action, still FIRE.
C7_Witness ==
    /\ ticks > 2 /\ state = STATE_FIRE /\ prevState = STATE_FIRE
    /\ arm.value = U(500) /\ actionPin = NOTUSED
    /\ currTime = Deadline /\ action = ACTION_NONE

\* floor(r * D / 1023) for 0 <= r <= 1023 and a word D, computed exactly
Scaled(r, D) ==
    LET a == r * D.hi
        t == (a % 1023) * Half + r * D.lo
        q == t \div 1023
    IN  W((a \div 1023) + (q \div Half), q % Half)

\* C8 (as claimed): whenever setup() arms a timer for READY, the wait value
\* is floor(r * D / 1023) for the analog sample r and the configured
\* duration D when a time pin is assigned, D itself when none is; it is at
\* most D; and the deadline is the arm clock plus that value.
C8_AnalogScaling ==
    (pc = "loop" /\ waiting) =>
        /\ arm.value = IF cfg.READY_TIME_PIN # NOTUSED
                       THEN Scaled(arm.raw, cfg.READY_TIME)
                       ELSE cfg.READY_TIME
        /\ Le32(arm.value, cfg.READY_TIME)
        /\ waitUntil = Add32(arm.time, arm.value)

\* the indicator outputs that are HIGH in the output levels o
Lit(o) ==
    {s \in State : IndicatorOf(cfg, s) # NOTUSED /\ o[IndicatorOf(cfg, s)] = HIGH}

\* C9: after every write of every changeState() and at the end of every
\* handler at most one indicator output is HIGH; changeState() writes the
\* four indicators LOW (none is HIGH from the fourth write on), then arms
\* the timer, then writes the new state's indicator HIGH.
C9_IndicatorExclusive ==
    /\ Cardinality(Lit(out)) <= 1
    /\ \A i \in 1..Len(csTrace) : Cardinality(Lit(csTrace[i].out)) <= 1
    /\ csTrace # << >> =>
          /\ [i \in 1..Len(csTrace) |-> csTrace[i].op]
                = <<"off", "off", "off", "off", "wait", "on">>
          /\ Lit(csTrace[4].out) = {}
          /\ Lit(csTrace[5].out) = {}
          /\ Lit(csTrace[6].out) = {state}

\* C9 witness: a changeState() from FIRE to REARM: FIRE's indicator is
\* still HIGH after the first two writes and LOW after the third, and
\* REARM's goes HIGH last.
C9_Witness ==
    /\ ticks > 0 /\ prevState = STATE_FIRE /\ state = STATE_REARM
    /\ Len(csTrace) = 6
    /\ Lit(csTrace[2].out) = {STATE_FIRE}
    /\ Lit(csTrace[3].out) = {}
    /\ Lit(out) = {STATE_REARM}

\* the reset pin is wired and HIGH
ResetHeld == cfg.RESET_PIN # NOTUSED /\ pinLevel[cfg.RESET_PIN] = HIGH

\* C10 (as claimed): whenever the reset pin is HIGH, either it goes LOW
\* again or the machine eventually is in STATE_READY.
C10_ResetNeverStarved ==
    ResetHeld ~> (state = STATE_READY \/ ~ResetHeld)


\* the last handler called changeState(): the timer record was armed at the
\* current clock sample (arm.time = currTime)
JustArmed == pc # "setup" /\ csTrace # << >>

\* milliseconds between the clock sample of this tick and the previous one
\* (below 2^32, so the unsigned difference is the elapsed time)
TickElapsed == Sub32(currTime', currTime)

\* C11 (as claimed): a tick that samples the clock at most d milliseconds
\* after a timed state was armed with wait value d finds doneWaiting()
\* false, also when the deadline t0 + d wraps past 2^32 - 1.
C11_NoSpuriousExpiry ==
    [][(IsTick /\ JustArmed /\ waiting /\ Le32(TickElapsed, arm.value)) =>
          ~expired']_vars

\* C12: a tick calls changeState() once when its action is not ACTION_NONE
\* and not at all otherwise; its action is arbitrated from the samples of
\* that tick alone; the state it ends in is the one it started in (NONE),
\* its successor (TRIGGER, END_TIME) or READY (RESET), also when the end
\* pin of the new state is HIGH or the new deadline is already passed.
C12_OneEventPerTick ==
    ticks > 0 =>
        /\ action = Arbitrate(expired, rd.end, rd.reset)
        /\ Len(csTrace) = IF action = ACTION_NONE THEN 0 ELSE 6
        /\ action = ACTION_NONE => state = prevState
        /\ action \in {ACTION_TRIGGER, ACTION_END_TIME} =>
              state = Succ(prevState)
        /\ action = ACTION_RESET => state = STATE_READY

\* C12 witness: a tick that advanced into a state whose end pin is HIGH
\* and whose new deadline is already passed, and stopped there.
C12_Witness ==
    /\ ticks > 0 /\ action \in {ACTION_TRIGGER, ACTION_END_TIME}
    /\ state = Succ(prevState) /\ Len(csTrace) = 6
    /\ actionPin # NOTUSED /\ pinLevel[actionPin] = HIGH
    /\ doneWaiting(waiting, currTime, waitUntil)

\* C13: the action of a tick is ACTION_RESET when the reset pin read HIGH,
\* else ACTION_TRIGGER when the armed end pin read HIGH, else
\* ACTION_END_TIME when doneWaiting() was true, else ACTION_NONE; so an
\* expired timer together with a HIGH end pin (reset LOW) gives TRIGGER.
C13_ArbitrationPriority ==
    ticks > 0 =>
        action = CASE rd.reset = HIGH -> ACTION_RESET
                   [] rd.reset # HIGH /\ rd.end = HIGH -> ACTION_TRIGGER
                   [] rd.reset # HIGH /\ rd.end # HIGH /\ expired ->
                         ACTION_END_TIME
                   [] OTHER -> ACTION_NONE

\* C13 witness: timer expired and end pin HIGH with a wired reset pin LOW:
\* the tick's action is TRIGGER.
C13_Witness ==
    /\ ticks > 0 /\ cfg.RESET_PIN # NOTUSED
    /\ expired /\ rd.end = HIGH /\ rd.reset = LOW
    /\ action = ACTION_TRIGGER

\* C14: a tick has ACTION_TRIGGER only if the end pin configured for the
\* state it started in is assigned and HIGH; a tick with reset LOW and
\* the timer not expired changes the state only in that case, whatever the
\* levels of the other states' end pins; in the shipped configuration
\* TRIGGER occurs only in READY.
C14_TriggerFromArmedPin ==
    ticks > 0 =>
        LET pin == EndPinOf(cfg, prevState)
            own == pin # NOTUSED /\ pinLevel[pin] = HIGH
        IN  /\ action = ACTION_TRIGGER => own
            /\ (state # prevState /\ rd.reset = LOW /\ ~expired) => own
            /\ (cfg = Shipped /\ action = ACTION_TRIGGER) =>
                  prevState = STATE_READY

\* C14 witness: a tick in FIRE, which has no end pin, while the end pins
\* of READY and REARM are both HIGH: no action, still FIRE.
C14_Witness ==
    /\ ticks > 0 /\ prevState = STATE_FIRE /\ state = STATE_FIRE
    /\ EndPinOf(cfg, STATE_FIRE) = NOTUSED
    /\ cfg.END_READY_PIN # NOTUSED /\ pinLevel[cfg.END_READY_PIN] = HIGH
    /\ cfg.END_REARM_PIN # NOTUSED /\ pinLevel[cfg.END_REARM_PIN] = HIGH
    /\ action = ACTION_NONE

\* a step that enters a state: setup(), or a tick whose action is not NONE
IsEntry == pc = "setup" \/ (IsTick /\ action' # ACTION_NONE)

\* the timer record is the one a wait() for the current state leaves at
\* the current clock sample with the analog sample arm.raw: the polled pin
\* is the state's end pin, waiting is false exactly for a pin-only state,
\* and when waiting the deadline is the clock plus a value getWaitValue()
\* returns for the state's time pin, duration and that sample
ArmedFresh ==
    /\ actionPin = EndPinOf(cfg, state)
    /\ waiting <=> ~PinOnly(state)
    /\ waiting =>
          /\ arm.time = currTime
          /\ arm.value \in getWaitValue(TimePinOf(cfg, state),
                                        TimeOf(cfg, state), arm.raw)
          /\ waitUntil = Add32(currTime, arm.value)

\* C15: a step that does not enter a state (a tick with no action, a pass
\* of the tuning loop) leaves waiting, waitUntil and actionPin unchanged
\* whatever analogRead() would return; a step that enters a state leaves a
\* timer record determined by the new state's constants, the clock sample
\* and the analog sample of that step.
C15_TimerFixedAtArm ==
    [][/\ ~IsEntry => UNCHANGED <<waiting, waitUntil, actionPin>>
       /\ IsEntry => ArmedFresh']_vars

\* C15 witness: FIRE entered with a time pin assigned and the analog
\* sample 1023, after READY and DELAY had been armed with other samples;
\* then a later tick without action that keeps the deadline.
C15_Witness ==
    /\ ticks > 2 /\ state = STATE_FIRE /\ prevState = STATE_FIRE
    /\ action = ACTION_NONE
    /\ TimePinOf(cfg, STATE_FIRE) # NOTUSED /\ arm.raw = 1023
    /\ arm.value = TimeOf(cfg, STATE_FIRE)
    /\ waiting /\ waitUntil = Deadline /\ Gt32(currTime, arm.time)

\* C16: after setup() and after every tick the state is one of the four
\* (READY right after setup), the indicator of the current state is HIGH
\* when it has one and those of the other states are LOW, actionPin is the
\* end pin of the current state, and waiting is false exactly when the
\* current state has duration 0 and an end pin.
C16_StateOutputConsistent ==
    pc # "setup" =>
        /\ state \in State
        /\ ticks = 0 => state = STATE_READY
        /\ \A s \in State :
              IndicatorOf(cfg, s) # NOTUSED =>
                  out[IndicatorOf(cfg, s)] = IF s = state THEN HIGH ELSE LOW
        /\ actionPin = EndPinOf(cfg, state)
        /\ ~waiting <=> PinOnly(state)

\* C16 witness: the end of a tick that entered REARM, a state with
\* duration 0 and an end pin: REARM's indicator alone is HIGH, its end pin
\* is polled and no timer is running.
C16_Witness ==
    /\ pc = "loop" /\ ticks > 0 /\ JustArmed
    /\ state = STATE_REARM /\ PinOnly(STATE_REARM)
    /\ Lit(out) = {STATE_REARM}
    /\ actionPin = cfg.END_REARM_PIN /\ ~waiting

\* C17: every tick in which the reset pin reads HIGH, whatever the state it
\* starts in (READY included), runs changeState(STATE_READY): the four
\* indicators are written LOW, the timer is armed from that tick's clock
\* sample, READY's indicator is written HIGH; the tick ends in READY with
\* ACTION_RESET even when READY's timer had expired or its end pin was HIGH.
C17_ResetReentersReady ==
    (ticks > 0 /\ rd.reset = HIGH) =>
        /\ action = ACTION_RESET /\ state = STATE_READY
        /\ Len(csTrace) = 6
        /\ Lit(csTrace[4].out) = {}
        /\ Lit(csTrace[6].out) = {STATE_READY}
        /\ arm.time = currTime
        /\ arm.value \in getWaitValue(cfg.READY_TIME_PIN, cfg.READY_TIME,
                                      arm.raw)
        /\ waiting => waitUntil = Add32(currTime, arm.value)
        /\ actionPin = cfg.END_READY_PIN

\* C17 witness: a later tick with reset HIGH that starts in READY with
\* READY's old deadline passed and its end pin HIGH: READY is entered
\* again and its deadline counts from this tick.
C17_Witness ==
    /\ ticks > 1 /\ prevState = STATE_READY /\ state = STATE_READY
    /\ rd.reset = HIGH /\ rd.end = HIGH /\ expired
    /\ action = ACTION_RESET /\ Len(csTrace) = 6
    /\ arm.time = currTime /\ Gt32(currTime, U(BLINK_TIME))
    /\ waiting /\ waitUntil = Add32(currTime, cfg.READY_TIME)
\* C19 (as claimed): a tick that samples the clock more than d milliseconds
\* after a timed state was armed with wait value d finds doneWaiting()
\* true, also when the clock has wrapped past 2^32 - 1 since the arm.
C19_NoMissedExpiry ==
    [][(IsTick /\ JustArmed /\ waiting /\ Gt32(TickElapsed, arm.value)) =>
          expired']_vars

\* C18 (as claimed): in a build whose states are all timed, with loop()
\* called again and again, the clock strictly increasing between ticks
\* and no reset, every state is eventually left, READY is eventually
\* reached again, and FIRE's output does not stay HIGH for ever.
C18_Progress ==
    /\ \A s \in State : (pc # "setup" /\ state = s) ~> (state # s)
    /\ (pc # "setup" /\ state # STATE_READY) ~> (state = STATE_READY)
    /\ (out[cfg.FIRE_PIN] = HIGH) ~> (out[cfg.FIRE_PIN] = LOW)

\* C20 (as claimed): in the shipped build, once setup() has run, the
\* durations it and loop() use are READY_TIME =
\* 600000, DELAY_TIME = 30000, FIRE_TIME = 10000 and REARM_TIME = 1200000
\* milliseconds, and setup() with the analog input at 1023 arms READY with
\* the full 600000 ms.
C20_ConfiguredDurations ==
    (pc # "setup" /\ cfg = Shipped) =>
        /\ cfg.READY_TIME = U(600000)
        /\ cfg.DELAY_TIME = U(30000)
        /\ cfg.FIRE_TIME = U(10000)
        /\ cfg.REARM_TIME = U(1200000)
        /\ (pc = "loop" /\ ticks = 0 /\ arm.raw = 1023) =>
              waitUntil = U(600000)

=============================================================================
